---- MODULE Spec2Model ----
(***************************************************************************)
(* A model of training/peft_train.py: load_feedback_dataset,               *)
(* compute_adoption_rate and the orchestration in main.                    *)
(*                                                                         *)
(* JSON values are records [ty, v]: ty is the Python type json.load gives  *)
(* ("null" for None, "bool", "num", "str", "list", "obj") and v is the     *)
(* number Python's truth test looks at (the length of a string or          *)
(* container, the value of a number, 0/1 for False/True).  A dict element  *)
(* of the dataset is a record [ty |-> "obj", prompt, completion, adopted]  *)
(* whose fields are JSON values, or Absent when the key is not in the      *)
(* dict.                                                                   *)
(*                                                                         *)
(* The calls into datasets / transformers / peft are not part of the       *)
(* repository.  Dataset.from_list is taken to convert the validated list   *)
(* as given; the calls main makes after loading may raise.                 *)
(***************************************************************************)
EXTENDS Integers, Sequences, FiniteSets

\* Longest JSON array the model reads.
MaxLen == 3

--------------------------------------------------------------------------
\* JSON values

Absent == [ty |-> "absent", v |-> 0]
JNull == [ty |-> "null", v |-> 0]
JFalse == [ty |-> "bool", v |-> 0]
JTrue == [ty |-> "bool", v |-> 1]
JStr(n) == [ty |-> "str", v |-> n]
JNum(n) == [ty |-> "num", v |-> n]

\* dict.get(key): None when the key is missing.
Get(record, key) == IF record[key] = Absent THEN JNull ELSE record[key]

\* Python's truth test, as `not x` and `if x` apply it.
Truthy(x) == x.ty # "null" /\ x.v # 0

Dict(p, c, a) == [ty |-> "obj", prompt |-> p, completion |-> c, adopted |-> a]
NonDict(t) == [ty |-> t, prompt |-> Absent, completion |-> Absent, adopted |-> Absent]

\* Field values the model's files use: missing, null, empty, text, and
\* values that are not text (a zero and a non-zero number).
PromptVals == {Absent, JNull, JStr(0), JStr(1), JNum(0), JNum(5)}
CompletionVals == {Absent, JNull, JStr(0), JStr(2), JNum(7)}
AdoptedVals == {Absent, JFalse, JTrue, JStr(3)}

\* The dicts of the model's files: {"prompt": "a", "completion": "bb"} with
\* at most one of its three fields changed.
Dicts ==
    {Dict(p, JStr(2), Absent) : p \in PromptVals}
        \cup {Dict(JStr(1), c, Absent) : c \in CompletionVals}
        \cup {Dict(JStr(1), JStr(2), a) : a \in AdoptedVals}

NonDicts == {NonDict("str"), NonDict("null")}
Elems == Dicts \cup NonDicts

SeqsUpTo(S, n) == UNION {[1..k -> S] : k \in 0..n}

JList(items) == [ty |-> "list", items |-> items]
JScalar(t) == [ty |-> t, items |-> <<>>]

\* What is at the dataset path: a file that cannot be opened, bytes that are
\* not UTF-8, text that is not JSON, or a JSON document.
Files ==
    {[cond |-> c, doc |-> JScalar("null")] : c \in {"oserror", "undecodable", "notjson"}}
        \cup {[cond |-> "json", doc |-> JScalar(t)] : t \in {"obj", "str", "num", "bool", "null"}}
        \cup {[cond |-> "json", doc |-> JList(s)] : s \in SeqsUpTo(Elems, MaxLen)}

--------------------------------------------------------------------------
\* How the process ends

Running == [class |-> "none", msg |-> "", detail |-> "", idx |-> -1, code |-> -1]

\* raise SystemExit(<string>): the message goes to stderr, exit status 1.
SystemExit(msg, detail, i) ==
    [class |-> "SystemExit", msg |-> msg, detail |-> detail, idx |-> i, code |-> 1]

\* An exception no handler catches: traceback, exit status 1.
Uncaught(exc) ==
    [class |-> "Uncaught", msg |-> "", detail |-> exc, idx |-> -1, code |-> 1]

Returned == [class |-> "returned", msg |-> "", detail |-> "", idx |-> -1, code |-> 0]

NoRate == [status |-> "none", num |-> 0, den |-> 1]

--------------------------------------------------------------------------
VARIABLES
    file,       \* what is at args.dataset
    pc,         \* where main (or the direct call) is
    records,    \* load_feedback_dataset: the parsed JSON value
    idx,        \* load_feedback_dataset: enumerate's index
    examined,   \* indices the loop body has run for
    data,       \* load_feedback_dataset: data; main: records
    ds,         \* main: ds, the Dataset built from data
    tokenizer,  \* main: a tokenizer has been loaded
    model,      \* main: "none", "base" or "peft"
    tokenized,  \* main: ds.map has run
    out,        \* args.output on disk, as main has seen and changed it
    trained,    \* trainer.train() has been called
    saved,      \* model.save_pretrained has been called
    printed,    \* the adoption-rate line has been printed
    rate,       \* the value compute_adoption_rate returned
    exit        \* how the process ended

vars == <<file, pc, records, idx, examined, data, ds, tokenizer, model,
          tokenized, out, trained, saved, printed, rate, exit>>

loadVars == <<records, idx, examined, data, ds>>
mainVars == <<tokenizer, model, tokenized, out, trained, saved, printed, rate>>

OutUnseen == [kind |-> "unseen", created |-> FALSE, writable |-> FALSE]

Init ==
    /\ file \in Files
    /\ pc = "load_open"
    /\ records = JScalar("null")
    /\ idx = 0
    /\ examined = {}
    /\ data = <<>>
    /\ ds = <<>>
    /\ tokenizer = FALSE
    /\ model = "none"
    /\ tokenized = FALSE
    /\ out = OutUnseen
    /\ trained = FALSE
    /\ saved = FALSE
    /\ printed = FALSE
    /\ rate = NoRate
    /\ exit = Running

\* raise: the process ends here with e.
Raise(e) == pc' = "exit" /\ exit' = e

--------------------------------------------------------------------------
\* load_feedback_dataset

\* open + json.load under `except (OSError, json.JSONDecodeError)`.
\* UnicodeDecodeError is a ValueError but neither of the two.
OpenOutcome(cond) ==
    CASE cond = "oserror" -> SystemExit("Failed to load dataset", "OSError", -1)
      [] cond = "notjson" -> SystemExit("Failed to load dataset", "JSONDecodeError", -1)
      [] cond = "undecodable" -> Uncaught("UnicodeDecodeError")
      [] OTHER -> Running

\* LoadOpen with the failure swallowed (`except ...: records = []`).
LoadOpenSwallowsError ==
    /\ pc = "load_open"
    /\ records' = IF file.cond = "json" THEN file.doc ELSE JList(<<>>)
    /\ pc' = "load_type"
    /\ UNCHANGED <<file, idx, examined, data, ds, mainVars, exit>>

LoadOpen ==
    /\ pc = "load_open"
    /\ IF file.cond = "json"
       THEN /\ records' = file.doc
            /\ pc' = "load_type"
            /\ UNCHANGED exit
       ELSE /\ Raise(OpenOutcome(file.cond))
            /\ UNCHANGED records
    /\ UNCHANGED <<file, idx, examined, data, ds, mainVars>>

\* IsList that lets a JSON object through too (it iterates like a list).
IsListOrObject(value) == value.ty \in {"list", "obj"}

IsList(value) == value.ty = "list"

LoadType ==
    /\ pc = "load_type"
    /\ IF IsList(records)
       THEN /\ pc' = "load_loop"
            /\ data' = <<>>
            /\ idx' = 0
            /\ UNCHANGED exit
       ELSE /\ Raise(SystemExit("Dataset JSON must be a list of objects", "", -1))
            /\ UNCHANGED <<data, idx>>
    /\ UNCHANGED <<file, records, examined, ds, mainVars>>

IsDict(record) == record.ty = "obj"

HasRequiredFields(record) ==
    ~(~Truthy(Get(record, "prompt")) \/ ~Truthy(Get(record, "completion")))

\* LoadLoop that skips a record failing a check instead of raising.
LoadLoopSkipsInvalid ==
    /\ pc = "load_loop"
    /\ idx < Len(records.items)
    /\ LET record == records.items[idx + 1] IN
           /\ examined' = examined \cup {idx}
           /\ data' = IF IsDict(record) /\ HasRequiredFields(record)
                      THEN Append(data, record)
                      ELSE data
           /\ idx' = idx + 1
    /\ UNCHANGED <<file, records, ds, mainVars, pc, exit>>

\* LoadLoop that does not collect a record it has already collected.
LoadLoopDropsDuplicates ==
    /\ pc = "load_loop"
    /\ idx < Len(records.items)
    /\ LET record == records.items[idx + 1] IN
           /\ examined' = examined \cup {idx}
           /\ IF ~IsDict(record)
              THEN /\ Raise(SystemExit("Record {idx} is not an object", "", idx))
                   /\ UNCHANGED <<data, idx>>
              ELSE IF ~HasRequiredFields(record)
              THEN /\ Raise(SystemExit("Record {idx} missing required fields", "", idx))
                   /\ UNCHANGED <<data, idx>>
              ELSE /\ data' = IF \E i \in 1..Len(data) : data[i] = record
                              THEN data
                              ELSE Append(data, record)
                   /\ idx' = idx + 1
                   /\ UNCHANGED <<pc, exit>>
    /\ UNCHANGED <<file, records, ds, mainVars>>

\* LoadLoop over enumerate(records, 1): the index it names is one too high.
LoadLoopOneBased ==
    /\ pc = "load_loop"
    /\ idx < Len(records.items)
    /\ LET record == records.items[idx + 1] IN
           /\ examined' = examined \cup {idx}
           /\ IF ~IsDict(record)
              THEN /\ Raise(SystemExit("Record {idx} is not an object", "", idx + 1))
                   /\ UNCHANGED <<data, idx>>
              ELSE IF ~HasRequiredFields(record)
              THEN /\ Raise(SystemExit("Record {idx} missing required fields", "", idx + 1))
                   /\ UNCHANGED <<data, idx>>
              ELSE /\ data' = Append(data, record)
                   /\ idx' = idx + 1
                   /\ UNCHANGED <<pc, exit>>
    /\ UNCHANGED <<file, records, ds, mainVars>>

\* One iteration of `for idx, record in enumerate(records)`.
LoadLoop ==
    /\ pc = "load_loop"
    /\ idx < Len(records.items)
    /\ LET record == records.items[idx + 1] IN
           /\ examined' = examined \cup {idx}
           /\ IF ~IsDict(record)
              THEN /\ Raise(SystemExit("Record {idx} is not an object", "", idx))
                   /\ UNCHANGED <<data, idx>>
              ELSE IF ~HasRequiredFields(record)
              THEN /\ Raise(SystemExit("Record {idx} missing required fields", "", idx))
                   /\ UNCHANGED <<data, idx>>
              ELSE /\ data' = Append(data, record)
                   /\ idx' = idx + 1
                   /\ UNCHANGED <<pc, exit>>
    /\ UNCHANGED <<file, records, ds, mainVars>>

\* The loop is exhausted: return Dataset.from_list(data), data.
LoadReturn ==
    /\ pc = "load_loop"
    /\ idx = Len(records.items)
    /\ ds' = data
    /\ pc' = "pretrained"
    /\ UNCHANGED <<file, records, idx, examined, data, mainVars, exit>>

--------------------------------------------------------------------------
\* compute_adoption_rate

RECURSIVE CountAdopted(_)
\* sum(1 for r in records if r.get("adopted"))
CountAdopted(rs) ==
    IF rs = <<>> THEN 0
    ELSE (IF Truthy(Get(Head(rs), "adopted")) THEN 1 ELSE 0) + CountAdopted(Tail(rs))

RECURSIVE CountAdoptedIsTrue(_)
\* sum(1 for r in records if r.get("adopted") is True)
CountAdoptedIsTrue(rs) ==
    IF rs = <<>> THEN 0
    ELSE (IF Get(Head(rs), "adopted") = JTrue THEN 1 ELSE 0) + CountAdoptedIsTrue(Tail(rs))

\* compute_adoption_rate counting only adopted: true.
RateOfAdoptedIsTrue(rs) ==
    IF rs = <<>>
    THEN [status |-> "ok", num |-> 0, den |-> 1]
    ELSE [status |-> "ok", num |-> CountAdoptedIsTrue(rs), den |-> Len(rs)]

RECURSIVE CountAdoptedDefaultTrue(_)
\* sum(1 for r in records if r.get("adopted", True))
CountAdoptedDefaultTrue(rs) ==
    IF rs = <<>> THEN 0
    ELSE (IF Head(rs).adopted = Absent \/ Truthy(Head(rs).adopted) THEN 1 ELSE 0)
             + CountAdoptedDefaultTrue(Tail(rs))

\* compute_adoption_rate counting a record with no adopted as adopted.
RateOfAdoptedDefaultTrue(rs) ==
    IF rs = <<>>
    THEN [status |-> "ok", num |-> 0, den |-> 1]
    ELSE [status |-> "ok", num |-> CountAdoptedDefaultTrue(rs), den |-> Len(rs)]

\* The float adopted / len(records), kept as the fraction it rounds.
compute_adoption_rate(rs) ==
    IF rs = <<>>
    THEN [status |-> "ok", num |-> 0, den |-> 1]
    ELSE [status |-> "ok", num |-> CountAdopted(rs), den |-> Len(rs)]

--------------------------------------------------------------------------
\* main, after the load

\* AutoTokenizer.from_pretrained, AutoModelForCausalLM.from_pretrained,
\* both under `except Exception`.
Pretrained ==
    /\ pc = "pretrained"
    /\ \E got \in {"none", "tokenizer", "both"} :
           /\ tokenizer' = (got # "none")
           /\ IF got = "both"
              THEN model' = "base" /\ pc' = "adapt" /\ UNCHANGED exit
              ELSE /\ Raise(SystemExit("Failed to load model or tokenizer", "", -1))
                   /\ UNCHANGED model
    /\ UNCHANGED <<file, loadVars, tokenized, out, trained, saved, printed, rate>>

\* LoraConfig, get_peft_model, ds.map(tokenize).
Adapt ==
    /\ pc = "adapt"
    /\ \E ok \in BOOLEAN :
           IF ok
           THEN /\ model' = "peft"
                /\ tokenized' = TRUE
                /\ pc' = "outdir_exists"
                /\ UNCHANGED exit
           ELSE /\ Raise(Uncaught("Exception"))
                /\ UNCHANGED <<model, tokenized>>
    /\ UNCHANGED <<file, loadVars, tokenizer, out, trained, saved, printed, rate>>

\* os.path.exists(path): true of a directory and of any other kind of file.
PathExists(kind) == kind # "absent"

\* if not os.path.exists(args.output): os.makedirs(args.output)
\* kind is what is at the path when main first looks; made is whether
\* os.makedirs succeeds.
OutdirExists ==
    /\ pc = "outdir_exists"
    /\ \E kind \in {"absent", "dir", "file"} :
           IF PathExists(kind)
           THEN /\ out' = [out EXCEPT !.kind = kind]
                /\ pc' = "outdir_access"
                /\ UNCHANGED exit
           ELSE \E made \in BOOLEAN :
                    IF made
                    THEN /\ out' = [out EXCEPT !.kind = "dir", !.created = TRUE]
                         /\ pc' = "outdir_access"
                         /\ UNCHANGED exit
                    ELSE /\ out' = [out EXCEPT !.kind = kind]
                         /\ Raise(SystemExit("Cannot create output directory", "OSError", -1))
    /\ UNCHANGED <<file, loadVars, tokenizer, model, tokenized, trained, saved,
                   printed, rate>>

\* if not os.access(args.output, os.W_OK): raise SystemExit
OutdirAccess ==
    /\ pc = "outdir_access"
    /\ \E w \in BOOLEAN :
           /\ out' = [out EXCEPT !.writable = w]
           /\ IF w
              THEN pc' = "train" /\ UNCHANGED exit
              ELSE Raise(SystemExit("Output directory is not writable", "", -1))
    /\ UNCHANGED <<file, loadVars, tokenizer, model, tokenized, trained, saved,
                   printed, rate>>

\* TrainingArguments(...), Trainer(...), trainer.train()
Train ==
    /\ pc = "train"
    /\ \E got \in {"ctor_raised", "train_raised", "trained"} :
           /\ trained' = (got # "ctor_raised")
           /\ IF got = "trained"
              THEN pc' = "save" /\ UNCHANGED exit
              ELSE Raise(Uncaught("Exception"))
    /\ UNCHANGED <<file, loadVars, tokenizer, model, tokenized, out, saved,
                   printed, rate>>

\* model.save_pretrained(args.output)
Save ==
    /\ pc = "save"
    /\ saved' = TRUE
    /\ \E ok \in BOOLEAN :
           IF ok
           THEN pc' = "report" /\ UNCHANGED exit
           ELSE Raise(Uncaught("Exception"))
    /\ UNCHANGED <<file, loadVars, tokenizer, model, tokenized, out, trained,
                   printed, rate>>

\* rate = compute_adoption_rate(records); print(...)
Report ==
    /\ pc = "report"
    /\ rate' = compute_adoption_rate(data)
    /\ printed' = TRUE
    /\ Raise(Returned)
    /\ UNCHANGED <<file, loadVars, tokenizer, model, tokenized, out, trained, saved>>

Next ==
    \/ LoadOpen
    \/ LoadType
    \/ LoadLoop
    \/ LoadReturn
    \/ Pretrained
    \/ Adapt
    \/ OutdirExists
    \/ OutdirAccess
    \/ Train
    \/ Save
    \/ Report

Spec == Init /\ [][Next]_vars

--------------------------------------------------------------------------
\* compute_adoption_rate called on its own, on any sequence of dicts

InitRate ==
    /\ data \in SeqsUpTo(Dicts, MaxLen)
    /\ file = [cond |-> "json", doc |-> JList(data)]
    /\ pc = "rate_call"
    /\ records = JScalar("null")
    /\ idx = 0
    /\ examined = {}
    /\ ds = <<>>
    /\ tokenizer = FALSE
    /\ model = "none"
    /\ tokenized = FALSE
    /\ out = OutUnseen
    /\ trained = FALSE
    /\ saved = FALSE
    /\ printed = FALSE
    /\ rate = NoRate
    /\ exit = Running

RateCall ==
    /\ pc = "rate_call"
    /\ rate' = compute_adoption_rate(data)
    /\ pc' = "rate_done"
    /\ UNCHANGED <<file, loadVars, tokenizer, model, tokenized, out, trained,
                   saved, printed, exit>>

NextRate == RateCall

RateSpec == InitRate /\ [][NextRate]_vars

--------------------------------------------------------------------------
\* Properties

LoadPcs == {"load_open", "load_type", "load_loop"}

LoadMsgs ==
    {"Failed to load dataset", "Dataset JSON must be a list of objects",
     "Record {idx} is not an object", "Record {idx} missing required fields"}

\* The process ended inside load_feedback_dataset.
LoadFailed ==
    /\ pc = "exit"
    /\ exit.msg \in LoadMsgs \/ exit.detail = "UnicodeDecodeError"

\* No step of main after the load has happened.
NothingAfterLoad ==
    /\ ~tokenizer
    /\ model = "none"
    /\ ~tokenized
    /\ out = OutUnseen
    /\ ~trained
    /\ ~saved
    /\ ~printed
    /\ rate = NoRate

FileIsArray == file.cond = "json" /\ file.doc.ty = "list"
Items == file.doc.items

\* A field that is missing, null or empty (the empty string or container,
\* and the values Python counts as empty: zero and false).
Blank(x) == x = Absent \/ x.ty = "null" \/ x.v = 0

\* An element the validation is to reject: not an object, or an object with
\* a missing, null or empty prompt or completion.
InvalidElement(e) == e.ty # "obj" \/ Blank(e.prompt) \/ Blank(e.completion)

NonEmptyText(x) == x.ty = "str" /\ x.v > 0

\* A well-formed record: an object whose prompt and completion are
\* non-empty text.
WellFormed(e) == e.ty = "obj" /\ NonEmptyText(e.prompt) /\ NonEmptyText(e.completion)

InvalidIndices == {i \in 0..(Len(Items) - 1) : InvalidElement(Items[i + 1])}

\* C1: a JSON array with an invalid element at any position never loads:
\* load_feedback_dataset does not return (no dataset, no record list, not
\* even the valid records around the invalid one), and the process ends
\* with the SystemExit of one of the two per-record checks.
C1_AllOrNothing ==
    (FileIsArray /\ InvalidIndices # {}) =>
        /\ pc \in LoadPcs \cup {"exit"}
        /\ ds = <<>>
        /\ NothingAfterLoad
        /\ pc = "exit" =>
               /\ exit.class = "SystemExit"
               /\ exit.msg \in {"Record {idx} is not an object",
                                "Record {idx} missing required fields"}

\* C1 witness: the load has failed on an invalid middle element, after a
\* valid first element was collected and before a valid last one.
C1_Witness ==
    /\ FileIsArray
    /\ Len(Items) = 3
    /\ InvalidIndices = {1}
    /\ pc = "exit"
    /\ Len(data) = 1

\* C2: a JSON array of well-formed records always loads: the load never
\* fails, what it has collected is at every moment the prefix of the input
\* it has read, and what it returns is the input, element for element.
C2_LoadReturnsInput ==
    (FileIsArray /\ \A i \in 1..Len(Items) : WellFormed(Items[i])) =>
        /\ ~LoadFailed
        /\ pc = "load_loop" => data = SubSeq(Items, 1, idx)
        /\ pc \notin LoadPcs => (data = Items /\ ds = Items)

\* C2 witness: a load has returned three records, the first and the last
\* the same, the middle one different and carrying an extra field.
C2_Witness ==
    /\ pc = "pretrained"
    /\ Len(data) = 3
    /\ \A i \in 1..3 : WellFormed(data[i])
    /\ data[1] = data[3]
    /\ data[1] # data[2]
    /\ data[2].adopted # Absent

\* C3: every record of a loaded dataset has a prompt and a completion that
\* are non-empty text.
C3_LoadedFieldsAreText ==
    pc \notin LoadPcs /\ ~LoadFailed =>
        \A i \in 1..Len(data) :
            NonEmptyText(data[i].prompt) /\ NonEmptyText(data[i].completion)

\* The kind of a failure: the exception class and the message it carries
\* (not the text of the underlying error put into the message).
ErrorKind(e) == <<e.class, e.msg>>

\* C4: a file that cannot be opened or read, and a file whose content is
\* not valid JSON, each end the process with a dataset error (SystemExit),
\* and the two errors differ in kind.
C4_DistinctErrorKinds ==
    (pc = "exit" /\ file.cond # "json") =>
        /\ exit.class = "SystemExit"
        /\ file.cond = "oserror" =>
               ErrorKind(exit) # ErrorKind(OpenOutcome("notjson"))
        /\ file.cond \in {"notjson", "undecodable"} =>
               ErrorKind(exit) # ErrorKind(OpenOutcome("oserror"))

\* C5: a JSON document whose top-level value is not an array never loads:
\* the process ends with the "must be a list" SystemExit, no element has
\* been examined, and nothing is returned.
C5_NotAnArray ==
    (file.cond = "json" /\ file.doc.ty # "list") =>
        /\ pc \in {"load_open", "load_type", "exit"}
        /\ examined = {}
        /\ data = <<>> /\ ds = <<>>
        /\ NothingAfterLoad
        /\ pc = "exit" =>
               exit = SystemExit("Dataset JSON must be a list of objects", "", -1)

\* C5 witness: the load of a top-level JSON object has failed.
C5_Witness ==
    /\ file.cond = "json"
    /\ file.doc.ty = "obj"
    /\ pc = "exit"

\* A record whose adopted field is truthy.
AdoptedRecord(r) == r.adopted # Absent /\ r.adopted.ty # "null" /\ r.adopted.v # 0

NumAdopted(rs) == Cardinality({i \in 1..Len(rs) : AdoptedRecord(rs[i])})

\* C6: compute_adoption_rate returns without failing; 0.0 for no records,
\* and K/N for N >= 1 records of which K have a truthy adopted; the
\* result is in [0, 1]; the records are as they were.
C6_AdoptionRate ==
    pc = "rate_done" =>
        /\ rate.status = "ok"
        /\ data = <<>> => (rate.num = 0 /\ rate.den = 1)
        /\ data # <<>> =>
               /\ rate.den > 0
               /\ rate.num * Len(data) = NumAdopted(data) * rate.den
        /\ 0 <= rate.num /\ rate.num <= rate.den
        /\ data = Items

\* C6 witness: the rate of three records, one adopted by a truthy value that
\* is not true, one with adopted false, one with no adopted, is 1/3.
C6_Witness ==
    /\ pc = "rate_done"
    /\ Len(data) = 3
    /\ \E i, j, k \in 1..3 :
           /\ data[i].adopted = JStr(3)
           /\ data[j].adopted = JFalse
           /\ data[k].adopted = Absent
    /\ rate.num * 3 = rate.den

\* C7: in any record sequence, giving a record that lacks adopted the field
\* adopted: false, or taking adopted: false away, leaves the rate as it is,
\* and the call does not fail.
C7_AbsentIsFalse ==
    pc = "rate_done" =>
        /\ rate.status = "ok"
        /\ \A i \in 1..Len(data) :
               /\ data[i].adopted = Absent =>
                      compute_adoption_rate([data EXCEPT ![i].adopted = JFalse]) = rate
               /\ data[i].adopted = JFalse =>
                      compute_adoption_rate([data EXCEPT ![i].adopted = Absent]) = rate

\* C7 witness: a rate was computed over records of which one lacks adopted,
\* one has it false and one has it true.
C7_Witness ==
    /\ pc = "rate_done"
    /\ \E i, j, k \in 1..Len(data) :
           /\ data[i].adopted = Absent
           /\ data[j].adopted = JFalse
           /\ data[k].adopted = JTrue

\* A dataset the load is to refuse: no readable JSON, no array, or an array
\* with an invalid element.
BadDataset ==
    \/ file.cond # "json"
    \/ file.doc.ty # "list"
    \/ InvalidIndices # {}

\* C8: when the load fails the process ends there, with a non-zero status,
\* and no later step of main has happened or happens: no tokenizer or model,
\* no output directory, no training, no save, no adoption-rate line.
C8_LoadFailureStopsMain ==
    (BadDataset \/ LoadFailed) =>
        /\ pc \in LoadPcs \cup {"exit"}
        /\ NothingAfterLoad
        /\ pc = "exit" => (LoadFailed /\ exit.code # 0)

\* C8 witness: the process has ended on a record that failed validation.
C8_Witness ==
    /\ LoadFailed
    /\ exit.msg = "Record {idx} missing required fields"
    /\ exit.code = 1

\* C9: training is invoked only once the output directory exists and has
\* been found writable.
C9_TrainOnlyAfterDirReady ==
    trained => (out.kind = "dir" /\ out.writable)

\* C10: the index a per-record failure names is the smallest index of an
\* invalid element, with the message of the check that element fails; the
\* loop has examined exactly the indices up to it, and while it runs it has
\* examined exactly the indices below idx, all of them valid.
C10_FirstInvalidIndex ==
    /\ pc = "load_loop" =>
           /\ examined = 0..(idx - 1)
           /\ \A i \in examined : ~InvalidElement(Items[i + 1])
    /\ (pc = "exit" /\ exit.idx >= 0) =>
           /\ exit.idx \in InvalidIndices
           /\ \A i \in InvalidIndices : exit.idx <= i
           /\ examined = 0..exit.idx
           /\ exit.msg = IF Items[exit.idx + 1].ty # "obj"
                         THEN "Record {idx} is not an object"
                         ELSE "Record {idx} missing required fields"
    /\ (pc = "exit" /\ FileIsArray /\ InvalidIndices # {}) => exit.idx >= 0

\* C10 witness: the load failed at index 1 on a record with an empty
\* completion, with a non-object after it at index 2.
C10_Witness ==
    /\ pc = "exit"
    /\ exit.idx = 1
    /\ FileIsArray
    /\ Len(Items) = 3
    /\ Items[2].completion = JStr(0)
    /\ Items[3].ty # "obj"

====
